---- MODULE Spec2Model ----
(***************************************************************************)
(* Model of parser-parse.go of go-readability: Parser.ParseDocument, the   *)
(* date lookup getDate / getParsedDate, and the output assembly.           *)
(*                                                                         *)
(* Strings are sequences of one-character strings.  "nl" is a newline      *)
(* (whitespace), " " a space, "bad" one byte that is not valid UTF-8.      *)
(***************************************************************************)
EXTENDS Integers, Sequences, FiniteSets, TLC

VARIABLES
    heap,       \* the document trees in memory, by reference
    ps,         \* the fields of each Parser value
    call,       \* the locals and position of each ParseDocument invocation
    parserOf,   \* the Parser value each invocation is made on
    made,       \* the number of ParseDocument calls begun so far
    dateIn,     \* the argument of a getParsedDate call made on its own
    dateOut,    \* its result
    datePc      \* its position

dateVars == <<dateIn, dateOut, datePc>>

docVars == <<heap, ps, call, parserOf, made>>

vars == <<heap, ps, call, parserOf, made, dateIn, dateOut, datePc>>

(***************************************************************************)
(* Bounds                                                                  *)
(***************************************************************************)
MaxYear == 2008

MaxCalls == 3

MaxTextLen == 3

Years == 2007..MaxYear

(***************************************************************************)
(* time.Time restricted to a calendar date.  A pointer is a sequence: Nil   *)
(* is the nil pointer, Ptr(v) points to v.                                 *)
(***************************************************************************)
Nil == <<>>

Ptr(v) == <<v>>

Date(y, m, d) == [year |-> y, month |-> m, day |-> d]

isLeap(y) == (y % 4 = 0) /\ ((y % 100 # 0) \/ (y % 400 = 0))

daysIn(m, y) ==
    IF m = 2 THEN (IF isLeap(y) THEN 29 ELSE 28)
    ELSE IF m \in {4, 6, 9, 11} THEN 30 ELSE 31

Digits == <<"0", "1", "2", "3", "4", "5", "6", "7", "8", "9">>

isDigit(s, i) == i <= Len(s) /\ \E k \in 1..10 : Digits[k] = s[i]

digitVal(c) == (CHOOSE k \in 1..10 : Digits[k] = c) - 1

digitChar(n) == Digits[n + 1]

Drop(s, n) == SubSeq(s, n + 1, Len(s))

Take(s, n) == SubSeq(s, 1, n)

HasPrefix(s, p) == Len(s) >= Len(p) /\ Take(s, Len(p)) = p

(***************************************************************************)
(* The layouts of getParsedDate that hold only digits, "/" and "-", in the *)
(* order of the table.  Every other layout of the table holds a letter, a  *)
(* space, a colon or a dot, which a value must repeat literally, so a      *)
(* value made of digits, "/" and "-" can only be accepted by these.        *)
(***************************************************************************)
formats ==
    << <<"2", "/", "1", "/", "2", "0", "0", "6">>,
       <<"2", "-", "1", "-", "2", "0", "0", "6">>,
       <<"2", "0", "0", "6", "-", "1", "-", "2">>,
       <<"2", "0", "0", "6", "/", "0", "1", "/", "0", "2">>,
       <<"2", "0", "0", "6", "-", "0", "1", "-", "0", "2">>,
       <<"1", "/", "2", "/", "2", "0", "0", "6">>,
       <<"0", "2", "/", "0", "1", "/", "2", "0", "0", "6">>,
       <<"0", "2", "-", "0", "1", "-", "2", "0", "0", "6">>,
       <<"0", "1", "/", "0", "2", "/", "2", "0", "0", "6">>,
       <<"0", "1", "-", "0", "2", "-", "2", "0", "0", "6">> >>

\* time.nextStdChunk: the kind and width of the chunk a layout starts with
nextStdChunk(layout) ==
    IF HasPrefix(layout, <<"2", "0", "0", "6">>) THEN [std |-> "stdLongYear", width |-> 4]
    ELSE IF HasPrefix(layout, <<"0", "1">>) THEN [std |-> "stdZeroMonth", width |-> 2]
    ELSE IF HasPrefix(layout, <<"0", "2">>) THEN [std |-> "stdZeroDay", width |-> 2]
    ELSE IF HasPrefix(layout, <<"1">>) THEN [std |-> "stdNumMonth", width |-> 1]
    ELSE IF HasPrefix(layout, <<"2">>) THEN [std |-> "stdDay", width |-> 1]
    ELSE [std |-> "literal", width |-> 1]

\* time.getnum: one or two leading digits; exactly two when fixed
getnum(s, fixed) ==
    IF ~isDigit(s, 1) THEN [ok |-> FALSE, n |-> 0, rest |-> s]
    ELSE IF ~isDigit(s, 2)
         THEN (IF fixed THEN [ok |-> FALSE, n |-> 0, rest |-> s]
               ELSE [ok |-> TRUE, n |-> digitVal(s[1]), rest |-> Drop(s, 1)])
         ELSE [ok |-> TRUE, n |-> 10 * digitVal(s[1]) + digitVal(s[2]), rest |-> Drop(s, 2)]

\* the four-digit year of stdLongYear
getyear(s) ==
    IF Len(s) >= 4 /\ \A i \in 1..4 : isDigit(s, i)
    THEN [ok |-> TRUE,
          n |-> 1000 * digitVal(s[1]) + 100 * digitVal(s[2]) + 10 * digitVal(s[3]) + digitVal(s[4]),
          rest |-> Drop(s, 4)]
    ELSE [ok |-> FALSE, n |-> 0, rest |-> s]

pad2(n) == <<digitChar(n \div 10), digitChar(n % 10)>>

num(n) == IF n < 10 THEN <<digitChar(n)>> ELSE pad2(n)

num4(n) == <<digitChar(n \div 1000), digitChar((n \div 100) % 10),
             digitChar((n \div 10) % 10), digitChar(n % 10)>>

RECURSIVE timeFormat(_, _)
\* time.Time.Format: the text of date t under a layout
timeFormat(layout, t) ==
    IF layout = <<>> THEN <<>>
    ELSE LET c == nextStdChunk(layout)
             out == CASE c.std = "stdLongYear" -> num4(t.year)
                      [] c.std = "stdZeroMonth" -> pad2(t.month)
                      [] c.std = "stdZeroDay" -> pad2(t.day)
                      [] c.std = "stdNumMonth" -> num(t.month)
                      [] c.std = "stdDay" -> num(t.day)
                      [] OTHER -> <<layout[1]>>
         IN out \o timeFormat(Drop(layout, c.width), t)

RECURSIVE parseChunks(_, _, _)
\* the chunk loop of time.Parse; acc holds the fields read so far
parseChunks(layout, value, acc) ==
    IF layout = <<>>
    THEN (IF value # <<>> THEN Nil                       \* extra text
          ELSE IF acc.month < 1 \/ acc.month > 12 THEN Nil
          ELSE IF acc.day < 1 \/ acc.day > daysIn(acc.month, acc.year) THEN Nil
          ELSE Ptr(acc))
    ELSE LET c == nextStdChunk(layout)
             rest == Drop(layout, c.width)
         IN CASE c.std = "stdLongYear" ->
                   LET r == getyear(value)
                   IN IF r.ok THEN parseChunks(rest, r.rest, [acc EXCEPT !.year = r.n]) ELSE Nil
              [] c.std \in {"stdZeroMonth", "stdNumMonth"} ->
                   LET r == getnum(value, c.std = "stdZeroMonth")
                   IN IF r.ok /\ r.n >= 1 /\ r.n <= 12
                      THEN parseChunks(rest, r.rest, [acc EXCEPT !.month = r.n]) ELSE Nil
              [] c.std \in {"stdZeroDay", "stdDay"} ->
                   LET r == getnum(value, c.std = "stdZeroDay")
                   IN IF r.ok THEN parseChunks(rest, r.rest, [acc EXCEPT !.day = r.n]) ELSE Nil
              [] OTHER ->
                   IF value # <<>> /\ value[1] = layout[1]
                   THEN parseChunks(rest, Drop(value, 1), acc) ELSE Nil

\* time.Parse: the date a value denotes under a layout, Nil on error
timeParse(layout, value) == parseChunks(layout, value, Date(0, 1, 1))

RECURSIVE tryFormats(_, _)
\* the loop over formats from index i: the first layout that parses wins
tryFormats(i, dateStr) ==
    IF i > Len(formats) THEN Nil
    ELSE LET parsedDate == timeParse(formats[i], dateStr)
         IN IF parsedDate # Nil THEN parsedDate ELSE tryFormats(i + 1, dateStr)

RECURSIVE tryFormatsLast(_, _, _)
\* the table walked to its end, so that the last layout that parses wins
tryFormatsLast(i, dateStr, found) ==
    IF i > Len(formats) THEN found
    ELSE LET parsedDate == timeParse(formats[i], dateStr)
         IN tryFormatsLast(i + 1, dateStr, IF parsedDate # Nil THEN parsedDate ELSE found)

getParsedDateLast(dateStr) == tryFormatsLast(1, dateStr, Nil)

getParsedDate(dateStr) == tryFormats(1, dateStr)

(***************************************************************************)
(* Strings                                                                 *)
(***************************************************************************)
isSpace(ch) == ch \in {" ", "nl"}

RECURSIVE TrimLeft(_)
TrimLeft(s) == IF s # <<>> /\ isSpace(s[1]) THEN TrimLeft(Drop(s, 1)) ELSE s

RECURSIVE TrimRight(_)
TrimRight(s) == IF s # <<>> /\ isSpace(s[Len(s)]) THEN TrimRight(Take(s, Len(s) - 1)) ELSE s

\* strings.TrimSpace
TrimSpace(s) == TrimRight(TrimLeft(s))

RECURSIVE Fields(_)
\* strings.Fields: the maximal runs of non-space characters
Fields(s) ==
    LET t == TrimLeft(s)
        n == IF \E i \in 1..Len(t) : isSpace(t[i])
             THEN (CHOOSE i \in 1..Len(t) : isSpace(t[i]) /\ \A j \in 1..(i - 1) : ~isSpace(t[j])) - 1
             ELSE Len(t)
    IN IF t = <<>> THEN <<>> ELSE <<Take(t, n)>> \o Fields(Drop(t, n))

RECURSIVE Join(_, _)
\* strings.Join
Join(elems, sep) ==
    IF elems = <<>> THEN <<>>
    ELSE IF Len(elems) = 1 THEN elems[1]
    ELSE elems[1] \o sep \o Join(Tail(elems), sep)

RECURSIVE ToValidUTF8(_, _)
\* strings.ToValidUTF8: each run of invalid bytes becomes one replacement
ToValidUTF8(s, replacement) ==
    IF s = <<>> THEN <<>>
    ELSE IF s[1] = "bad"
         THEN LET n == IF \E i \in 1..Len(s) : s[i] # "bad"
                       THEN (CHOOSE i \in 1..Len(s) : s[i] # "bad" /\ \A j \in 1..(i - 1) : s[j] = "bad") - 1
                       ELSE Len(s)
              IN replacement \o ToValidUTF8(Drop(s, n), replacement)
         ELSE <<s[1]>> \o ToValidUTF8(Drop(s, 1), replacement)

\* charCount: the number of runes, an invalid byte counting as one
charCount(s) == Len(s)

(***************************************************************************)
(* Document trees.  An element holds its own text, then its children.      *)
(***************************************************************************)
Node(tag, text, kids) == [tag |-> tag, text |-> text, kids |-> kids]

Para(t) == Node("p", t, <<>>)

Img == Node("img", <<>>, <<>>)

Div(kids) == Node("div", <<>>, kids)

Aside(kids) == Node("aside", <<>>, kids)

Noscript(kids) == Node("noscript", <<>>, kids)

Script(t) == Node("script", t, <<>>)

Style == Node("style", <<>>, <<>>)

Root(kids) == Node("#document", <<>>, kids)

RECURSIVE TextContent(_)
RECURSIVE TextFrom(_, _)
\* dom.TextContent: the text of a node and of its descendants, in order
TextContent(n) == n.text \o TextFrom(n.kids, 1)

TextFrom(kids, i) ==
    IF i > Len(kids) THEN <<>> ELSE TextContent(kids[i]) \o TextFrom(kids, i + 1)

OpenTag(tag) ==
    CASE tag = "p" -> "<p>" [] tag = "img" -> "<img>" [] tag = "div" -> "<div>"
      [] tag = "aside" -> "<aside>" [] tag = "noscript" -> "<noscript>"
      [] tag = "script" -> "<script>" [] OTHER -> "<style>"

CloseTag(tag) ==
    CASE tag = "p" -> "</p>" [] tag = "img" -> "" [] tag = "div" -> "</div>"
      [] tag = "aside" -> "</aside>" [] tag = "noscript" -> "</noscript>"
      [] tag = "script" -> "</script>" [] OTHER -> "</style>"

RECURSIVE InnerHTML(_)
RECURSIVE OuterFrom(_, _)
\* dom.InnerHTML: the markup of the children of a node
InnerHTML(n) == n.text \o OuterFrom(n.kids, 1)

OuterFrom(kids, i) ==
    IF i > Len(kids) THEN <<>>
    ELSE <<OpenTag(kids[i].tag)>> \o InnerHTML(kids[i])
         \o (IF CloseTag(kids[i].tag) = "" THEN <<>> ELSE <<CloseTag(kids[i].tag)>>)
         \o OuterFrom(kids, i + 1)

RECURSIVE Descendants(_)
RECURSIVE DescFrom(_, _)
\* the elements below a node, in document order
Descendants(n) == DescFrom(n.kids, 1)

DescFrom(kids, i) ==
    IF i > Len(kids) THEN <<>>
    ELSE <<kids[i]>> \o Descendants(kids[i]) \o DescFrom(kids, i + 1)

\* dom.GetElementsByTagName
GetElementsByTagName(n, tag) ==
    SelectSeq(Descendants(n), LAMBDA e : tag = "*" \/ e.tag = tag)

\* dom.FirstElementChild
FirstElementChild(n) == IF n.kids = <<>> THEN Nil ELSE Ptr(n.kids[1])

(***************************************************************************)
(* The heap: the caller's document and the parser's working copy of each   *)
(* invocation live at different references.                                *)
(***************************************************************************)
Calls == 1..2

Parsers == 1..2

InRef(c) == <<"in", c>>

CloneRef(c) == <<"clone", c>>

NoRef == <<"none", 0>>

Refs == {InRef(c) : c \in Calls} \cup {CloneRef(c) : c \in Calls}

EmptyHead ==
    [title |-> <<>>, byline |-> <<>>, excerpt |-> <<>>, siteName |-> <<>>,
     image |-> <<>>, favicon |-> <<>>, datePublished |-> <<>>, dateModified |-> <<>>]

NoDoc == [head |-> EmptyHead, root |-> Node("#none", <<>>, <<>>)]

\* without a copy the parser works on the caller's tree
NoClone(c) == InRef(c)

\* dom.Clone(doc, true): the reference of a fresh deep copy
Clone(c) == CloneRef(c)

(***************************************************************************)
(* Parser values                                                           *)
(***************************************************************************)
AllFlags == [stripUnlikelys |-> TRUE, useWeightClasses |-> TRUE, cleanConditionally |-> TRUE]

NewParser(maxElems, disableJSONLD) ==
    [doc |-> NoRef, articleTitle |-> <<>>, articleByline |-> <<>>, articleDir |-> <<>>,
     articleSiteName |-> <<>>, documentURI |-> Nil, attempts |-> <<>>, flags |-> AllFlags,
     MaxElemsToParse |-> maxElems, DisableJSONLD |-> disableJSONLD]

EmptyArticle ==
    [Title |-> <<>>, Byline |-> <<>>, Node |-> Nil, Content |-> <<>>, TextContent |-> <<>>,
     Length |-> 0, Excerpt |-> <<>>, SiteName |-> <<>>, Image |-> <<>>, Favicon |-> <<>>,
     PublishedTime |-> Nil, ModifiedTime |-> Nil]

NoInput == [doc |-> NoDoc, pageURL |-> Nil]

IdleCall(c) ==
    [id |-> c, pc |-> "idle", input |-> NoInput, jsonLd |-> <<>>, metadata |-> EmptyHead,
     articleContent |-> Nil, readableNode |-> Nil, finalHTMLContent |-> <<>>,
     finalTextContent |-> <<>>, result |-> EmptyArticle, err |-> FALSE]

\* a step of ParseDocument yields the parser, the locals and the heap it leaves
Out(P, L, H) == [ps |-> P, loc |-> L, heap |-> H]

\* the attempts are kept from the earlier call
keepAttempts(old) == old

\* ps.attempts = []parseAttempt{}
resetAttempts(old) == <<>>

\* lines 26-41: take the caller's tree, clone it, reset the parser data
Begin(P, L, H, input) ==
    LET c == L.id
        H1 == [H EXCEPT ![InRef(c)] = input.doc]
        H2 == [H1 EXCEPT ![Clone(c)] = H1[InRef(c)]]
    IN Out([P EXCEPT !.doc = Clone(c),
                     !.articleTitle = <<>>, !.articleByline = <<>>,
                     !.articleDir = <<>>, !.articleSiteName = <<>>,
                     !.documentURI = input.pageURL,
                     !.attempts = resetAttempts(P.attempts),
                     !.flags = AllFlags],
           [IdleCall(c) EXCEPT !.pc = "check", !.input = input],
           H2)

\* the limit is also hit by a document of exactly the allowed size
tooLargeInclusive(numTags, maxElems) == maxElems > 0 /\ numTags >= maxElems

\* lines 44-46: the size limit is on and the document exceeds it
tooLarge(numTags, maxElems) == maxElems > 0 /\ numTags > maxElems

\* lines 43-49
SizeCheck(P, L, H) ==
    LET numTags == Len(GetElementsByTagName(H[P.doc].root, "*"))
    IN IF tooLarge(numTags, P.MaxElemsToParse)
       THEN Out(P, [L EXCEPT !.pc = "done", !.err = TRUE, !.result = EmptyArticle], H)
       ELSE Out(P, [L EXCEPT !.pc = "unwrap"], H)

SetKids(doc, kids) == [doc EXCEPT !.root.kids = kids]

\* unwrapNoscriptImages: a noscript block holding one image becomes the image
unwrapNoscriptImages(doc) ==
    SetKids(doc, [i \in 1..Len(doc.root.kids) |->
        LET b == doc.root.kids[i]
        IN IF b.tag = "noscript" /\ Len(b.kids) = 1 /\ b.kids[1].tag = "img"
           THEN b.kids[1] ELSE b])

\* line 52
Unwrap(P, L, H) ==
    Out(P, [L EXCEPT !.pc = "jsonld"], [H EXCEPT ![P.doc] = unwrapNoscriptImages(H[P.doc])])

\* getJSONLD: the title the first structured-data script declares
getJSONLD(doc) ==
    LET scripts == SelectSeq(doc.root.kids, LAMBDA b : b.tag = "script" /\ b.text # <<>>)
    IN IF scripts = <<>> THEN <<>> ELSE scripts[1].text

\* lines 54-58
JSONLD(P, L, H) ==
    Out(P, [L EXCEPT !.pc = "scripts",
                     !.jsonLd = IF P.DisableJSONLD THEN <<>> ELSE getJSONLD(H[P.doc])], H)

\* removeScripts: script and noscript elements leave the tree
removeScripts(doc) ==
    SetKids(doc, SelectSeq(doc.root.kids, LAMBDA b : b.tag \notin {"script", "noscript"}))

\* line 61
RemoveScripts(P, L, H) ==
    Out(P, [L EXCEPT !.pc = "prep"], [H EXCEPT ![P.doc] = removeScripts(H[P.doc])])

\* prepDocument: style elements leave the tree
prepDocument(doc) == SetKids(doc, SelectSeq(doc.root.kids, LAMBDA b : b.tag # "style"))

\* line 64
Prep(P, L, H) ==
    Out(P, [L EXCEPT !.pc = "meta"], [H EXCEPT ![P.doc] = prepDocument(H[P.doc])])

\* getArticleMetadata: structured data first, then the meta tags
getArticleMetadata(doc, jsonLd) ==
    [doc.head EXCEPT !.title = IF jsonLd # <<>> THEN jsonLd ELSE doc.head.title]

\* lines 66-68
Metadata(P, L, H) ==
    LET metadata == getArticleMetadata(H[P.doc], L.jsonLd)
    IN Out([P EXCEPT !.articleTitle = metadata["title"]],
           [L EXCEPT !.pc = "grab", !.metadata = metadata], H)
(***************************************************************************)
(* grabArticle: scoring, sanitation and the retry loop over the flags      *)
(***************************************************************************)
CharThreshold == 2

textLength(n) == charCount(TrimSpace(TextContent(n)))

CountTag(b, tag) == Len(SelectSeq(b.kids, LAMBDA k : k.tag = tag))

\* junk by the conditional cleaner: several images outweighing the paragraphs
isJunk(b) == CountTag(b, "img") >= 2 /\ CountTag(b, "img") > CountTag(b, "p")

isEmptyNode(n) == n.tag = "p" /\ n.text = <<>> /\ n.kids = <<>>

\* the sanitation pass over the working tree under the active flags
sanitize(root, flags) ==
    LET kept == SelectSeq(root.kids, LAMBDA b :
                    /\ ~isEmptyNode(b)
                    /\ ~(flags.stripUnlikelys /\ b.tag = "aside")
                    /\ ~(flags.cleanConditionally /\ isJunk(b)))
    IN [root EXCEPT !.kids = [i \in 1..Len(kept) |->
            [kept[i] EXCEPT !.kids = SelectSeq(kept[i].kids, LAMBDA k : ~isEmptyNode(k))]]]

\* the best-scoring block in document order, or the top-level body
selectContainer(root) ==
    LET cands == SelectSeq(root.kids, LAMBDA b : b.tag \in {"div", "aside"} /\ textLength(b) >= 1)
    IN IF cands = <<>> THEN root
       ELSE cands[CHOOSE i \in 1..Len(cands) :
                    /\ \A j \in 1..Len(cands) : textLength(cands[j]) <= textLength(cands[i])
                    /\ \A j \in 1..(i - 1) : textLength(cands[j]) < textLength(cands[i])]

\* the recorded attempt with the greatest text length, the first on a tie
bestAttempt(attempts) ==
    attempts[CHOOSE i \in 1..Len(attempts) :
                /\ \A j \in 1..Len(attempts) : attempts[j].textLength <= attempts[i].textLength
                /\ \A j \in 1..(i - 1) : attempts[j].textLength < attempts[i].textLength]

RECURSIVE attemptLoop(_, _, _)
\* one attempt under the flags, then accept, relax one flag and retry, or
\* fall back to the best recorded attempt
attemptLoop(root, flags, attempts) ==
    LET tree == sanitize(root, flags)
        container == selectContainer(tree)
        a == [flags |-> flags, articleContent |-> container, textLength |-> textLength(container)]
        recorded == Append(attempts, a)
    IN IF a.textLength >= CharThreshold
       THEN [flags |-> flags, attempts |-> recorded, chosen |-> a, tree |-> tree]
       ELSE IF flags.cleanConditionally
       THEN attemptLoop(root, [flags EXCEPT !.cleanConditionally = FALSE], recorded)
       ELSE IF flags.stripUnlikelys
       THEN attemptLoop(root, [flags EXCEPT !.stripUnlikelys = FALSE], recorded)
       ELSE IF flags.useWeightClasses
       THEN attemptLoop(root, [flags EXCEPT !.useWeightClasses = FALSE], recorded)
       ELSE [flags |-> flags, attempts |-> recorded, chosen |-> bestAttempt(recorded), tree |-> tree]

grabArticle(P, doc) == attemptLoop(doc.root, P.flags, P.attempts)

\* lines 70-74
GrabArticle(P, L, H) ==
    LET g == grabArticle(P, H[P.doc])
        node == g.chosen.articleContent
    IN Out([P EXCEPT !.flags = g.flags, !.attempts = g.attempts],
           [L EXCEPT !.pc = "post",
                     !.articleContent = IF node.kids = <<>> /\ node.text = <<>> THEN Nil ELSE Ptr(node)],
           [H EXCEPT ![P.doc] = SetKids(H[P.doc], g.tree.kids)])

\* postProcessContent: empty wrappers left by the removals are dropped
postProcessContent(n) ==
    [n EXCEPT !.kids = SelectSeq(n.kids, LAMBDA k : ~(k.tag = "div" /\ k.kids = <<>> /\ k.text = <<>>))]

\* a map read: the zero value for a missing key
mapGet(m, key) == IF key \in DOMAIN m THEN m[key] ELSE <<>>

\* the excerpt is taken from the last paragraph
excerptParagraphLast(paragraphs) == paragraphs[Len(paragraphs)]

\* line 85: paragraphs[0]
excerptParagraph(paragraphs) == paragraphs[1]

\* the text is stored as it is, without trimming
finalTextUntrimmed(articleContent) == TextContent(articleContent)

\* lines 91-92
finalText(articleContent) == TrimSpace(TextContent(articleContent))

\* lines 76-93
PostProcess(P, L, H) ==
    IF L.articleContent # Nil
    THEN LET articleContent == postProcessContent(L.articleContent[1])
             paragraphs == GetElementsByTagName(articleContent, "p")
             metadata == IF L.metadata["excerpt"] = <<>> /\ Len(paragraphs) > 0
                         THEN [L.metadata EXCEPT !["excerpt"] =
                                  TrimSpace(TextContent(excerptParagraph(paragraphs)))]
                         ELSE L.metadata
         IN Out(P, [L EXCEPT !.pc = "assemble",
                             !.articleContent = Ptr(articleContent),
                             !.metadata = metadata,
                             !.readableNode = FirstElementChild(articleContent),
                             !.finalHTMLContent = InnerHTML(articleContent),
                             !.finalTextContent = finalText(articleContent)], H)
    ELSE Out(P, [L EXCEPT !.pc = "assemble"], H)

\* lines 136-142
getDate(metadata, fieldName) ==
    LET ok == fieldName \in DOMAIN metadata
        dateStr == mapGet(metadata, fieldName)
    IN IF ok /\ Len(dateStr) > 0 THEN getParsedDate(dateStr) ELSE Nil

\* lines 100-103 and 115
finalExcerpt(metadata) ==
    LET excerpt == Join(Fields(TrimSpace(mapGet(metadata, "excerpt"))), <<" ">>)
    IN ToValidUTF8(excerpt, <<>>)

\* lines 95-133
Assemble(P, L, H) ==
    LET metadata == L.metadata
        finalByline == IF metadata["byline"] = <<>> THEN P.articleByline ELSE metadata["byline"]
        replacementTitle == IF L.input.pageURL # Nil THEN L.input.pageURL[1] ELSE <<>>
        validTitle == ToValidUTF8(P.articleTitle, replacementTitle)
        validByline == ToValidUTF8(finalByline, <<>>)
        validExcerpt == finalExcerpt(metadata)
        datePublished == getDate(metadata, "datePublished")
        dateModified == getDate(metadata, "dataModified")
    IN Out(P, [L EXCEPT !.pc = "done", !.err = FALSE,
                        !.result = [Title |-> validTitle,
                                    Byline |-> validByline,
                                    Node |-> L.readableNode,
                                    Content |-> L.finalHTMLContent,
                                    TextContent |-> L.finalTextContent,
                                    Length |-> charCount(L.finalTextContent),
                                    Excerpt |-> validExcerpt,
                                    SiteName |-> mapGet(metadata, "siteName"),
                                    Image |-> mapGet(metadata, "image"),
                                    Favicon |-> mapGet(metadata, "favicon"),
                                    PublishedTime |-> datePublished,
                                    ModifiedTime |-> dateModified]], H)

\* ParseDocument run from start to end on a parser nothing else touches
ParseDocument(P, c, H, input) ==
    LET s0 == Begin(P, IdleCall(c), H, input)
        s1 == SizeCheck(s0.ps, s0.loc, s0.heap)
        s2 == Unwrap(s1.ps, s1.loc, s1.heap)
        s3 == JSONLD(s2.ps, s2.loc, s2.heap)
        s4 == RemoveScripts(s3.ps, s3.loc, s3.heap)
        s5 == Prep(s4.ps, s4.loc, s4.heap)
        s6 == Metadata(s5.ps, s5.loc, s5.heap)
        s7 == GrabArticle(s6.ps, s6.loc, s6.heap)
        s8 == PostProcess(s7.ps, s7.loc, s7.heap)
        s9 == Assemble(s8.ps, s8.loc, s8.heap)
    IN IF s1.loc.pc = "done" THEN s1 ELSE s9

EmptyHeap == [r \in Refs |-> NoDoc]

\* the Article and error of one call on a newly constructed Parser
ParseAlone(maxElems, disableJSONLD, input) ==
    LET r == ParseDocument(NewParser(maxElems, disableJSONLD), 1, EmptyHeap, input)
    IN [result |-> r.loc.result, err |-> r.loc.err]
(***************************************************************************)
(* Inputs                                                                  *)
(***************************************************************************)
TextAlphabet == {"a", "nl", "bad"}

Texts == UNION {[1..n -> TextAlphabet] : n \in 0..MaxTextLen}

DateSlash == <<"3", "/", "4", "/", "2", "0", "0", "7">>

DateIso == <<"2", "0", "0", "7", "-", "0", "1", "-", "0", "2">>

DateStrs == {<<>>, DateSlash, DateIso, <<"a">>}

Titles == {<<>>, <<"a">>, <<"bad">>, <<"a", "bad", "bad", "a">>}

Bylines == {<<>>, <<"a", "bad">>}

HeadBase == [EmptyHead EXCEPT !.title = <<"a">>, !.siteName = <<"a">>]

Heads ==
    {[HeadBase EXCEPT !.excerpt = e] : e \in Texts}
    \cup {[HeadBase EXCEPT !.title = t, !.byline = b] : t \in Titles, b \in Bylines}
    \cup {[HeadBase EXCEPT !.datePublished = p, !.dateModified = m] : p \in DateStrs, m \in DateStrs}

BodyBase == <<Div(<<Para(<<"a", "a">>)>>)>>

Bodies ==
    {<<>>, <<Div(<<Img>>)>>, <<Style, Div(<<Img, Img, Para(<<"a">>)>>), Aside(<<Para(<<"a", "a">>)>>)>>}
    \cup {<<Div(<<Para(t)>>)>> : t \in Texts}
    \cup {<<Div(<<Para(t), Para(<<"a", "a">>)>>)>> : t \in Texts}
    \cup {<<Div(<<Img, Para(t)>>)>> : t \in Texts}
    \cup {<<Para(t)>> : t \in Texts}
    \cup {<<Script(<<"a", "a">>), Noscript(<<Img>>), Para(t)>> : t \in Texts}
    \cup {<<Aside(<<Para(<<"a", "a", "a">>)>>), Div(<<Para(t)>>)>> : t \in Texts}

Docs ==
    {[head |-> h, root |-> Root(BodyBase)] : h \in Heads}
    \cup {[head |-> h, root |-> Root(b)] : h \in {HeadBase, EmptyHead}, b \in Bodies}

URLs == {Nil, Ptr(<<"u">>)}

Inputs == [doc : Docs, pageURL : URLs]

\* a few documents for the runs where invocations overlap
SmallDocs ==
    {[head |-> HeadBase, root |-> Root(BodyBase)],
     [head |-> [EmptyHead EXCEPT !.title = <<"bad">>], root |-> Root(<<Para(<<"a">>)>>)],
     [head |-> EmptyHead,
      root |-> Root(<<Script(<<"a", "a">>), Aside(<<Para(<<"a", "a", "a">>)>>), Div(<<Para(<<"nl">>)>>)>>)],
     [head |-> HeadBase, root |-> Root(<<Div(<<Img>>)>>)]}

SmallInputs == [doc : SmallDocs, pageURL : URLs]

MaxElemsChoices == {-1, 0, 1, 2}

(***************************************************************************)
(* Actions: one per step of ParseDocument, for invocation c                *)
(***************************************************************************)
\* every invocation works on one shared Parser value
selfShared(c) == 1

\* the receiver ps of invocation c
self(c) == parserOf[c]

Apply(c, r) ==
    /\ ps' = [ps EXCEPT ![self(c)] = r.ps]
    /\ call' = [call EXCEPT ![c] = r.loc]
    /\ heap' = r.heap
    /\ UNCHANGED <<parserOf, dateVars>>

Step(c, r) == Apply(c, r) /\ UNCHANGED made

CallBegin(c, inputs, limit) ==
    /\ call[c].pc = "idle"
    /\ made < limit
    /\ made' = made + 1
    /\ \E input \in inputs : Apply(c, Begin(ps[self(c)], call[c], heap, input))

CallSizeCheck(c) ==
    /\ call[c].pc = "check"
    /\ Step(c, SizeCheck(ps[self(c)], call[c], heap))

CallUnwrap(c) ==
    /\ call[c].pc = "unwrap"
    /\ Step(c, Unwrap(ps[self(c)], call[c], heap))

CallJSONLD(c) ==
    /\ call[c].pc = "jsonld"
    /\ Step(c, JSONLD(ps[self(c)], call[c], heap))

CallRemoveScripts(c) ==
    /\ call[c].pc = "scripts"
    /\ Step(c, RemoveScripts(ps[self(c)], call[c], heap))

CallPrep(c) ==
    /\ call[c].pc = "prep"
    /\ Step(c, Prep(ps[self(c)], call[c], heap))

CallMetadata(c) ==
    /\ call[c].pc = "meta"
    /\ Step(c, Metadata(ps[self(c)], call[c], heap))

CallGrabArticle(c) ==
    /\ call[c].pc = "grab"
    /\ Step(c, GrabArticle(ps[self(c)], call[c], heap))

CallPostProcess(c) ==
    /\ call[c].pc = "post"
    /\ Step(c, PostProcess(ps[self(c)], call[c], heap))

CallAssemble(c) ==
    /\ call[c].pc = "assemble"
    /\ Step(c, Assemble(ps[self(c)], call[c], heap))

\* the caller takes the result; the Parser value can be used again
CallReturn(c) ==
    /\ call[c].pc = "done"
    /\ call' = [call EXCEPT ![c] = IdleCall(c)]
    /\ UNCHANGED <<heap, ps, parserOf, made, dateVars>>

InitDoc(assignments, maxElems) ==
    /\ heap = EmptyHeap
    /\ call = [c \in Calls |-> IdleCall(c)]
    /\ parserOf \in assignments
    /\ made = 0
    /\ \E m \in maxElems, d \in BOOLEAN : ps = [p \in Parsers |-> NewParser(m, d)]

NoDateIn == [layout |-> 0, t |-> Date(0, 1, 1), str |-> <<>>]

NoDate ==
    /\ dateIn = NoDateIn
    /\ dateOut = Nil
    /\ datePc = "off"

(***************************************************************************)
(* Spec: one call on a newly constructed Parser value                       *)
(***************************************************************************)
Init == InitDoc({[c \in Calls |-> 1]}, MaxElemsChoices) /\ NoDate

Next ==
    \/ CallBegin(1, Inputs, 1)
    \/ CallSizeCheck(1)
    \/ CallUnwrap(1)
    \/ CallJSONLD(1)
    \/ CallRemoveScripts(1)
    \/ CallPrep(1)
    \/ CallMetadata(1)
    \/ CallGrabArticle(1)
    \/ CallPostProcess(1)
    \/ CallAssemble(1)

Spec == Init /\ [][Next]_vars

(***************************************************************************)
(* SpecReuse: one Parser value used for one call after the other           *)
(***************************************************************************)
NextReuse ==
    \/ CallBegin(1, SmallInputs, MaxCalls)
    \/ CallSizeCheck(1)
    \/ CallUnwrap(1)
    \/ CallJSONLD(1)
    \/ CallRemoveScripts(1)
    \/ CallPrep(1)
    \/ CallMetadata(1)
    \/ CallGrabArticle(1)
    \/ CallPostProcess(1)
    \/ CallAssemble(1)
    \/ CallReturn(1)

SpecReuse == Init /\ [][NextReuse]_vars

(***************************************************************************)
(* SpecConc: two invocations whose steps interleave, each on its own       *)
(* Parser value or both on the same one                                    *)
(***************************************************************************)
InitConc == InitDoc({[c \in Calls |-> c], [c \in Calls |-> 1]}, {0, 2}) /\ NoDate

NextConc ==
    \E c \in Calls :
        \/ CallBegin(c, SmallInputs, 2)
        \/ CallSizeCheck(c)
        \/ CallUnwrap(c)
        \/ CallJSONLD(c)
        \/ CallRemoveScripts(c)
        \/ CallPrep(c)
        \/ CallMetadata(c)
        \/ CallGrabArticle(c)
        \/ CallPostProcess(c)
        \/ CallAssemble(c)
        \/ CallReturn(c)

SpecConc == InitConc /\ [][NextConc]_vars

Done(c) == call[c].pc = "done"

Ok(c) == Done(c) /\ ~call[c].err

Cfg(c) == ps[parserOf[c]]

TypeOK ==
    /\ \A c \in Calls : call[c].pc \in {"idle", "check", "unwrap", "jsonld", "scripts", "prep",
                                        "meta", "grab", "post", "assemble", "done"}
    /\ \A p \in Parsers : ps[p].doc \in Refs \cup {NoRef}

(***************************************************************************)
(* Properties of ParseDocument                                             *)
(***************************************************************************)
Outcome(c) == [result |-> call[c].result, err |-> call[c].err]

Alone(c) == ParseAlone(Cfg(c).MaxElemsToParse, Cfg(c).DisableJSONLD, call[c].input)

NumElems(doc) == Len(GetElementsByTagName(doc.root, "*"))

\* C1: from the start of a call to its return, on the success path and on
\* the size-limit path, the caller's tree equals the tree that was passed in
CallerDocUntouched ==
    \A c \in Calls : call[c].pc # "idle" => heap[InRef(c)] = call[c].input.doc

\* a finished call whose working copy was changed by the extraction
CallerDocUntouchedWitness ==
    /\ Ok(1)
    /\ ps[1].doc = CloneRef(1)
    /\ heap[CloneRef(1)] # heap[InRef(1)]

\* C2: every call, also one interleaved with another call on the same
\* Parser value, returns the Article it returns when run alone
InterleavedCallsIndependent ==
    \A c \in Calls : Done(c) => Outcome(c) = Alone(c)

\* C2 amended: calls interleaved on different Parser values each return the
\* Article they return when run alone
DistinctParsersIndependent ==
    parserOf[1] # parserOf[2] => \A c \in Calls : Done(c) => Outcome(c) = Alone(c)

\* one call has returned while the other, on another Parser, is under way
DistinctParsersWitness ==
    /\ parserOf[1] # parserOf[2]
    /\ Ok(1)
    /\ call[2].pc \in {"meta", "grab", "post", "assemble"}
    /\ call[1].input # call[2].input

\* C3: an error is returned exactly when the limit is positive and the
\* document holds more elements than the limit
SizeLimitErrorExact ==
    \A c \in Calls : Done(c) =>
        (call[c].err <=> (Cfg(c).MaxElemsToParse > 0
                          /\ NumElems(call[c].input.doc) > Cfg(c).MaxElemsToParse))

\* a document of exactly the allowed size was parsed without error
SizeLimitWitness ==
    /\ Ok(1)
    /\ Cfg(1).MaxElemsToParse > 0
    /\ NumElems(call[1].input.doc) = Cfg(1).MaxElemsToParse

ReuseDeterministic ==
    /\ \A c \in Calls : Done(c) => Outcome(c) = Alone(c)
    /\ \A c \in Calls : call[c].pc = "check" =>
          /\ Cfg(c).attempts = <<>>
          /\ Cfg(c).flags = AllFlags
          /\ Cfg(c).articleTitle = <<>> /\ Cfg(c).articleByline = <<>>
          /\ Cfg(c).articleDir = <<>> /\ Cfg(c).articleSiteName = <<>>

\* a later call on the reused Parser has finished
ReuseWitness ==
    /\ made >= 2
    /\ Ok(1)
    /\ Len(ps[1].attempts) > 1

HasFallbackCase(c) ==
    /\ Ok(c)
    /\ call[c].input.doc.head.excerpt = <<>>
    /\ call[c].articleContent # Nil
    /\ GetElementsByTagName(call[c].articleContent[1], "p") # <<>>

FirstParagraphText(c) ==
    TrimSpace(TextContent(GetElementsByTagName(call[c].articleContent[1], "p")[1]))

\* C6: without a metadata excerpt, the Excerpt is the trimmed text of the
\* first paragraph of the container
ExcerptIsFirstParagraph ==
    \A c \in Calls : HasFallbackCase(c) => call[c].result.Excerpt = FirstParagraphText(c)

\* C6 amended: without a metadata excerpt, the Excerpt is the trimmed text
\* of the first paragraph with each whitespace run collapsed to one space
\* and the invalid bytes then removed
ExcerptIsCollapsedFirstParagraph ==
    \A c \in Calls : HasFallbackCase(c) =>
        call[c].result.Excerpt =
            ToValidUTF8(Join(Fields(FirstParagraphText(c)), <<" ">>), <<>>)

\* the first paragraph holds an inner newline, which the Excerpt lost
ExcerptFallbackWitness ==
    /\ HasFallbackCase(1)
    /\ Len(GetElementsByTagName(call[1].articleContent[1], "p")) > 1
    /\ call[1].result.Excerpt # FirstParagraphText(1)

\* C7: ModifiedTime is the date parsed from the dateModified field, and
\* absent only when the field is missing, empty or unparseable
ModifiedTimeFromDateModified ==
    \A c \in Calls : Ok(c) =>
        call[c].result.ModifiedTime =
            (IF call[c].metadata["dateModified"] # <<>>
             THEN getParsedDate(call[c].metadata["dateModified"]) ELSE Nil)

\* C8: with an empty metadata title and a source locator, the Title is the
\* locator string
TitleFallsBackToLocator ==
    \A c \in Calls :
        (Ok(c) /\ call[c].metadata["title"] = <<>> /\ call[c].input.pageURL # Nil)
            => call[c].result.Title = call[c].input.pageURL[1]

\* C10: the Excerpt has no whitespace at either end, no newline and no two
\* whitespace characters in a row
ExcerptSingleLine ==
    \A c \in Calls : Ok(c) =>
        LET e == call[c].result.Excerpt
        IN /\ e # <<>> => (~isSpace(e[1]) /\ ~isSpace(e[Len(e)]))
           /\ \A i \in 1..Len(e) : e[i] # "nl"
           /\ \A i \in 1..(Len(e) - 1) : ~(isSpace(e[i]) /\ isSpace(e[i + 1]))

(***************************************************************************)
(* Date lookup on its own: a date is written under one layout of the table *)
(* (or garbled) and handed to getParsedDate.                               *)
(***************************************************************************)
ValidDates ==
    {Date(y, m, d) : y \in Years, m \in 1..12, d \in 1..31} \
    {t \in {Date(y, m, d) : y \in Years, m \in 1..12, d \in 1..31} : t.day > daysIn(t.month, t.year)}

DateInputs ==
    {[layout |-> k, t |-> t, str |-> timeFormat(formats[k], t)] :
        k \in 1..Len(formats), t \in ValidDates}
    \cup
    {[layout |-> 0, t |-> t, str |-> timeFormat(formats[k], t) \o <<"/">>] :
        k \in 1..Len(formats), t \in ValidDates}

InitDate ==
    /\ heap = EmptyHeap
    /\ call = [c \in Calls |-> IdleCall(c)]
    /\ parserOf = [c \in Calls |-> c]
    /\ made = 0
    /\ ps = [p \in Parsers |-> NewParser(0, FALSE)]
    /\ dateIn \in DateInputs
    /\ dateOut = Nil
    /\ datePc = "start"

ParseDate ==
    /\ datePc = "start"
    /\ dateOut' = getParsedDate(dateIn.str)
    /\ datePc' = "done"
    /\ UNCHANGED <<dateIn, docVars>>

NextDate == ParseDate

SpecDate == InitDate /\ [][NextDate]_vars

\* the layouts before layout k that also accept s
EarlierAccepts(k, s) == \E j \in 1..(k - 1) : timeParse(formats[j], s) # Nil

\* C9: a string written under a layout of the table parses to the date
\* that layout encodes, also when an earlier layout accepts the string;
\* a string no layout matches yields nil
DateRoundTrip ==
    datePc = "done" =>
        /\ dateIn.layout # 0 => dateOut = Ptr(dateIn.t)
        /\ (\A k \in 1..Len(formats) : timeParse(formats[k], dateIn.str) = Nil) => dateOut = Nil

\* C9 amended: the layout's own date is returned unless an earlier layout
\* of the table accepts the string, and then the first accepting layout's
\* reading is returned; nil when no layout matches
DateRoundTripFirstMatch ==
    datePc = "done" =>
        /\ (dateIn.layout # 0 /\ ~EarlierAccepts(dateIn.layout, dateIn.str)) => dateOut = Ptr(dateIn.t)
        /\ dateIn.layout # 0 => dateOut # Nil
        /\ (dateIn.layout # 0 /\ EarlierAccepts(dateIn.layout, dateIn.str)) =>
              \E j \in 1..(dateIn.layout - 1) :
                  /\ dateOut = timeParse(formats[j], dateIn.str)
                  /\ \A i \in 1..(j - 1) : timeParse(formats[i], dateIn.str) = Nil
        /\ (\A k \in 1..Len(formats) : timeParse(formats[k], dateIn.str) = Nil) => dateOut = Nil

\* a string written under "1/2/2006" that "2/1/2006" accepted first
DateRoundTripWitness ==
    /\ datePc = "done"
    /\ dateIn.layout = 6
    /\ EarlierAccepts(6, dateIn.str)
    /\ dateOut # Ptr(dateIn.t)
====
